---- MODULE Spec2Model ----
(***************************************************************************)
(* A model of src/index.js of the utimes package: set(paths, options)      *)
(* validates its arguments, builds the times and the flags, and then       *)
(* updates each target in turn through the native binding (win32, darwin)  *)
(* or through fs.stat / fs.utimes (every other platform).                  *)
(*                                                                         *)
(* JavaScript values are records tagged by t.  A number is kept exactly:   *)
(* a finite number is (-1)^neg * (hi * 10^9 + lo + half/2) with            *)
(* 0 <= lo < 10^9, so that 2^48 is representable; NaN and the infinities   *)
(* have their own class.                                                   *)
(***************************************************************************)
EXTENDS Integers, Sequences, FiniteSets, TLC

(***************************************************************************)
(* Bounds of the model.                                                    *)
(***************************************************************************)
\* the longest paths array the caller passes
MaxPaths == 3
\* the number of steps below one millisecond that a file timestamp keeps
SubRes == 2
\* the number of writes by other processes during one call
MaxTouches == 1
MaxEdits == 1

(***************************************************************************)
(* JavaScript values.                                                      *)
(***************************************************************************)
Undefined == [t |-> "undefined"]
Null == [t |-> "null"]
Str(s) == [t |-> "string", s |-> s]
Arr(a) == [t |-> "array", a |-> a]
Obj(b, m, a) == [t |-> "object", btime |-> b, mtime |-> m, atime |-> a]
Fin(hi, lo) == [t |-> "number", cls |-> "fin", neg |-> FALSE, hi |-> hi, lo |-> lo, half |-> FALSE]
Neg(n) == [n EXCEPT !.neg = TRUE]
Half(n) == [n EXCEPT !.half = TRUE]
NaN == [t |-> "number", cls |-> "nan", neg |-> FALSE, hi |-> 0, lo |-> 0, half |-> FALSE]
Infinity == [t |-> "number", cls |-> "inf", neg |-> FALSE, hi |-> 0, lo |-> 0, half |-> FALSE]

Limb == 1000 * 1000 * 1000

\* typeof v
TypeOf(v) ==
    CASE v.t = "undefined" -> "undefined"
      [] v.t = "string" -> "string"
      [] v.t = "number" -> "number"
      [] OTHER -> "object"

\* Array.isArray(v)
IsArray(v) == v.t = "array"

\* ToBoolean(v), as used by `v || 0` and `if (v)`
Truthy(v) ==
    CASE v.t = "undefined" -> FALSE
      [] v.t = "null" -> FALSE
      [] v.t = "string" -> Len(v.s) > 0
      [] v.t = "number" -> /\ v.cls # "nan"
                           /\ (v.cls = "fin" => (v.hi # 0 \/ v.lo # 0 \/ v.half))
      [] OTHER -> TRUE

\* Math.floor(v) !== v, for a number v
NotInteger(v) == v.cls = "nan" \/ (v.cls = "fin" /\ v.half)

\* v < 0, for a number v
LessThanZero(v) ==
    /\ v.cls # "nan"
    /\ v.neg
    /\ (v.cls = "fin" => (v.hi # 0 \/ v.lo # 0 \/ v.half))

\* v > w, for a number v and a finite w >= 0 without fraction
GreaterThan(v, w) ==
    CASE v.cls = "nan" -> FALSE
      [] v.cls = "inf" -> ~v.neg
      [] OTHER -> /\ ~v.neg
                  /\ \/ v.hi > w.hi
                     \/ v.hi = w.hi /\ v.lo > w.lo
                     \/ v.hi = w.hi /\ v.lo = w.lo /\ v.half

\* n + n, n - 1 and n + 1 for a finite n >= 0 without fraction
Twice(n) == Fin(2 * n.hi + ((2 * n.lo) \div Limb), (2 * n.lo) % Limb)
Pred(n) == IF n.lo = 0 THEN Fin(n.hi - 1, Limb - 1) ELSE Fin(n.hi, n.lo - 1)
Succ(n) == IF n.lo = Limb - 1 THEN Fin(n.hi + 1, 0) ELSE Fin(n.hi, n.lo + 1)

\* Math.pow(2, e)
RECURSIVE Pow2(_)
Pow2(e) == IF e = 0 THEN Fin(0, 1) ELSE Twice(Pow2(e - 1))

\* Math.pow(2, 48) - 1
MaxTime == Pred(Pow2(48))

(***************************************************************************)
(* Errors: what a thrown Error's message carries, and the kind the         *)
(* message stands for.                                                     *)
(***************************************************************************)
NoIndex == 0 - 1
Key(name) == [name |-> name, index |-> NoIndex]
KeyAt(i) == [name |-> "paths", index |-> i]
Err(kind, key, reason) == [kind |-> kind, key |-> key, reason |-> reason, code |-> 0, path |-> <<>>]
Ok(v) == [threw |-> FALSE, val |-> v]
Throw(e) == [threw |-> TRUE, err |-> e]

(***************************************************************************)
(* Validation and the plan: normalizePaths, getFullOptions, getFlags.      *)
(***************************************************************************)
\* value.indexOf('\u0000') !== -1
HasNul(s) == \E i \in DOMAIN s : s[i] = 0

assertPathNoNulCheck(key, value) ==
    IF TypeOf(value) # "string"
    THEN Throw(Err("InvalidArgument", key, "must be a string"))
    ELSE IF Len(value.s) = 0
    THEN Throw(Err("InvalidPath", key, "must not be empty"))
    ELSE Ok(Undefined)

assertPath(key, value) ==
    IF TypeOf(value) # "string"
    THEN Throw(Err("InvalidArgument", key, "must be a string"))
    ELSE IF Len(value.s) = 0
    THEN Throw(Err("InvalidPath", key, "must not be empty"))
    ELSE IF HasNul(value.s)
    THEN Throw(Err("InvalidPath", key, "must be a string without null bytes"))
    ELSE Ok(Undefined)

\* the elements of the array that fail assertPath
BadElements(a) == {i \in DOMAIN a : assertPath(KeyAt(i - 1), a[i]).threw}

\* the lowest i of a non-empty set of indices: the loop stops at its first throw
FirstOfFromEnd(S) == CHOOSE i \in S : \A j \in S : i >= j
FirstOf(S) == CHOOSE i \in S : \A j \in S : i <= j

normalizePaths(p) ==
    IF TypeOf(p) = "string"
    THEN LET r == assertPath(Key("path"), p) IN
         IF r.threw THEN r ELSE Ok(<<p>>)
    ELSE IF IsArray(p)
    THEN IF BadElements(p.a) # {}
         THEN assertPath(KeyAt(FirstOf(BadElements(p.a)) - 1), p.a[FirstOf(BadElements(p.a))])
         ELSE Ok(p.a)
    ELSE Throw(Err("InvalidArgument", Key("path"), "must be a string or array"))

\* key + ' must not be more than ' + Math.pow(2, 48) - 1 is a string minus 1
TooLargeMessage(key) == Err("InvalidTime", Key(""), "NaN")

assertTimeOffByOne(key, value) ==
    IF value.t = "undefined"
    THEN Ok(Undefined)
    ELSE IF TypeOf(value) # "number"
    THEN Throw(Err("InvalidTime", Key(key), "must be a number or undefined"))
    ELSE IF NotInteger(value)
    THEN Throw(Err("InvalidTime", Key(key), "must be an integer"))
    ELSE IF LessThanZero(value)
    THEN Throw(Err("InvalidTime", Key(key), "must be a positive integer"))
    ELSE IF GreaterThan(value, Pred(MaxTime))
    THEN Throw(TooLargeMessage(key))
    ELSE Ok(Undefined)

assertTime(key, value) ==
    IF value.t = "undefined"
    THEN Ok(Undefined)
    ELSE IF TypeOf(value) # "number"
    THEN Throw(Err("InvalidTime", Key(key), "must be a number or undefined"))
    ELSE IF NotInteger(value)
    THEN Throw(Err("InvalidTime", Key(key), "must be an integer"))
    ELSE IF LessThanZero(value)
    THEN Throw(Err("InvalidTime", Key(key), "must be a positive integer"))
    ELSE IF GreaterThan(value, MaxTime)
    THEN Throw(TooLargeMessage(key))
    ELSE Ok(Undefined)

\* options.k: a property read; reading a property of null throws a TypeError
Prop(o, k) == IF o.t = "object" THEN o[k] ELSE Undefined

\* v || 0
OrZero(v) == IF Truthy(v) THEN v ELSE Fin(0, 0)

getFullOptions(o) ==
    IF TypeOf(o) # "object"
    THEN Throw(Err("InvalidArgument", Key("options"), "must be an object"))
    ELSE IF o.t = "null"
    THEN Throw(Err("TypeError", Key("options"), "cannot read properties of null"))
    ELSE IF assertTime("btime", Prop(o, "btime")).threw
    THEN assertTime("btime", Prop(o, "btime"))
    ELSE IF assertTime("mtime", Prop(o, "mtime")).threw
    THEN assertTime("mtime", Prop(o, "mtime"))
    ELSE IF assertTime("atime", Prop(o, "atime")).threw
    THEN assertTime("atime", Prop(o, "atime"))
    ELSE Ok([btime |-> OrZero(Prop(o, "btime")),
             mtime |-> OrZero(Prop(o, "mtime")),
             atime |-> OrZero(Prop(o, "atime"))])

\* flags & b and flags | b, for a single bit b
HasBit(f, b) == (f \div b) % 2 = 1
WithBit(f, b) == IF HasBit(f, b) THEN f ELSE f + b

getFlagsOfDefined(tm) ==
    LET f1 == IF tm.btime.t # "undefined" THEN WithBit(0, 1) ELSE 0
        f2 == IF tm.mtime.t # "undefined" THEN WithBit(f1, 2) ELSE f1
    IN  IF tm.atime.t # "undefined" THEN WithBit(f2, 4) ELSE f2

getFlagsSwapped(tm) ==
    LET f1 == IF Truthy(tm.btime) THEN WithBit(0, 1) ELSE 0
        f2 == IF Truthy(tm.mtime) THEN WithBit(f1, 4) ELSE f1
    IN  IF Truthy(tm.atime) THEN WithBit(f2, 2) ELSE f2

getFlags(tm) ==
    LET f1 == IF Truthy(tm.btime) THEN WithBit(0, 1) ELSE 0
        f2 == IF Truthy(tm.mtime) THEN WithBit(f1, 2) ELSE f1
    IN  IF Truthy(tm.atime) THEN WithBit(f2, 4) ELSE f2

(***************************************************************************)
(* The native call adapter's buffer.                                       *)
(***************************************************************************)
\* path._makeLong: the \\?\ form of the resolved path on win32, the path itself on
\* darwin and for the empty string
LongPrefix == <<92, 92, 63, 92, 67, 58, 92>>
makeLong(plat, s) == IF plat = "win32" /\ s # <<>> THEN LongPrefix \o s ELSE s

\* the UTF-8 bytes of a string of code points below 2048
RECURSIVE Utf8(_)
Utf8(s) ==
    IF s = <<>> THEN <<>>
    ELSE (IF Head(s) < 128
          THEN <<Head(s)>>
          ELSE <<192 + (Head(s) \div 64), 128 + (Head(s) % 64)>>) \o Utf8(Tail(s))

\* buffer.indexOf(0): the lowest index of a zero byte (JavaScript counts from 0)
IndexOfZero(b) == FirstOf({i \in DOMAIN b : b[i] = 0}) - 1

pathBuffer(plat, target) ==
    LET targetLong == makeLong(plat, target.s)
        buffer == Utf8(targetLong) \o <<0>>
    IN  IF IndexOfZero(buffer) # Len(buffer) - 1
        THEN Throw(Err("InvalidPath", Key("path"), "must be a string without null bytes"))
        ELSE Ok(buffer)

(***************************************************************************)
(* Times on their way to and from the file system.  A file timestamp is a  *)
(* whole number of milliseconds (hi, lo) plus sub steps below one          *)
(* millisecond; fs.utimes takes seconds.                                   *)
(***************************************************************************)
\* ms / 1000: the seconds (hi * 10^6 + sec) and the thousandths left over
Seconds(n) == [hi |-> n.hi, sec |-> n.lo \div 1000, milli |-> n.lo % 1000]

\* the timestamp fs.utimes stores for an argument in seconds
StoredTime(s) == [hi |-> s.hi, lo |-> s.sec * 1000 + s.milli, sub |-> 0]

\* the timestamp the binding stores for an argument in milliseconds
StoredMs(n) == [hi |-> n.hi, lo |-> n.lo, sub |-> 0]

\* stats.mtime.getTime(): a Date holds whole milliseconds; the runtime either
\* drops the part of the file's timestamp below one millisecond or rounds it
getTime(ft) ==
    {Fin(ft.hi, ft.lo)} \cup
    (IF 2 * ft.sub >= SubRes THEN {Succ(Fin(ft.hi, ft.lo))} ELSE {})

(***************************************************************************)
(* The state: one call of set(paths, options) on one platform.             *)
(***************************************************************************)
VARIABLES
    platform,   \* process.platform
    paths,      \* the first argument of set
    options,    \* the second argument of set
    pc,         \* where set is: "start", at one of its awaits, or "done"
    targets,    \* const targets
    times,      \* const times
    flags,      \* const flags
    idx,        \* the position of the for-of loop in targets (from 1)
    log,        \* every external call issued so far, in order, with its outcome
    result,     \* the promise set returned
    fs,         \* the timestamps of the files
    hist        \* the arguments as they were at the call, and what the caller and
                \* other processes have done since

vars == <<platform, paths, options, pc, targets, times, flags, idx, log, result, fs, hist>>

\* nothing has happened yet around a call with arguments p and o
NoHistory(p, o) == [paths0 |-> p, options0 |-> o, writes |-> <<>>, edits |-> <<>>]

Platforms == {"win32", "darwin", "linux"}

\* the two files there are, and the arguments the caller may pass
PathA == Str(<<97>>)
PathB == Str(<<233>>)
Files == {PathA.s, PathB.s}
PathElems == {PathA, PathB, Str(<<>>), Str(<<97, 0>>), Fin(0, 5)}
PathArgs ==
    {Arr(a) : a \in UNION {[1..n -> PathElems] : n \in 0..MaxPaths}}
    \cup {PathA, PathB, Str(<<>>), Str(<<0, 97>>), Undefined, Null, Fin(0, 7)}

T1 == Fin(0, 1500)
T2 == Fin(0, 2750)
TimeVals == {Undefined, Fin(0, 0), T1, T2, Neg(Fin(0, 1))}
OptionArgs ==
    {Obj(b, m, a) : b \in TimeVals, m \in TimeVals, a \in TimeVals}
    \cup {Undefined, Null, Fin(0, 3), Str(<<97>>)}

\* the timestamps before the call; the first file's mtime is not a whole millisecond
FileTime(lo, sub) == [hi |-> 0, lo |-> lo, sub |-> sub]
InitFs ==
    [f \in Files |->
        IF f = PathA.s
        THEN [btime |-> FileTime(5000, 0), mtime |-> FileTime(7001, SubRes - 1),
              atime |-> FileTime(9002, 0)]
        ELSE [btime |-> FileTime(4000, 0), mtime |-> FileTime(6001, 0),
              atime |-> FileTime(8002, 1)]]

NoErr == Err("", Key(""), "")
Pending == [state |-> "pending", err |-> NoErr]
Fulfilled == [state |-> "fulfilled", err |-> NoErr]
Rejected(e) == [state |-> "rejected", err |-> e]

Init ==
    /\ platform \in Platforms
    /\ paths \in PathArgs
    /\ options \in OptionArgs
    /\ pc = "start"
    /\ targets = <<>>
    /\ times = [btime |-> Fin(0, 0), mtime |-> Fin(0, 0), atime |-> Fin(0, 0)]
    /\ flags = 0
    /\ idx = 0
    /\ log = <<>>
    /\ result = Pending
    /\ fs = InitFs
    /\ hist = NoHistory(paths, options)

(***************************************************************************)
(* External calls.  A call is logged when it is issued and settles when    *)
(* its callback runs.                                                      *)
(***************************************************************************)
Call(op, i, path, args) ==
    [op |-> op, target |-> i, path |-> path, args |-> args,
     st |-> "pending", ret |-> Undefined, settles |-> 0, reported |-> FALSE, status |-> 0]

\* resolve and reject of a promise: only a pending promise settles
ResolveP(c, v) ==
    IF c.st = "pending" THEN [c EXCEPT !.st = "ok", !.ret = v, !.settles = @ + 1] ELSE c
RejectP(c, e) ==
    IF c.st = "pending" THEN [c EXCEPT !.st = "failed", !.ret = e, !.settles = @ + 1] ELSE c

\* the status the outside reported for the call: 0, an errno or the binding's code
Reported(c, status) == [c EXCEPT !.reported = TRUE, !.status = status]

\* what fs.stat and fs.utimes fail with
OsErrors == {"ENOENT", "EPERM"}
Errno(code) == IF code = "ENOENT" THEN 0 - 2 ELSE 0 - 1
OsErr(op, code, path) ==
    [kind |-> "OSError", key |-> Key(op), reason |-> code, code |-> Errno(code), path |-> path]

\* fs.utimes(path, atime, mtime) sets both timestamps
UtimesEffect(f, path, atime, mtime) ==
    [f EXCEPT ![path] = [@ EXCEPT !.atime = StoredTime(atime), !.mtime = StoredTime(mtime)]]

\* the statuses binding.utimes reports, and what it does to the file: it sets
\* the timestamps whose bit is in the flags, and nothing when it fails
NativeStatuses == {0, 2, 5}
BindingEffect(f, path, fl, bt, mt, at, status) ==
    IF status # 0 THEN f
    ELSE [f EXCEPT ![path] =
            [btime |-> IF HasBit(fl, 1) THEN StoredMs(bt) ELSE @.btime,
             mtime |-> IF HasBit(fl, 2) THEN StoredMs(mt) ELSE @.mtime,
             atime |-> IF HasBit(fl, 4) THEN StoredMs(at) ELSE @.atime]]

\* new Error(`(${result}), utimes(${path})`)
NativeError(status, path) ==
    [kind |-> "NativeCallFailed", key |-> Key("utimes"), reason |-> "",
     code |-> status, path |-> path]

\* the callback callBinding hands to binding.utimes
BindingResultNegativeOnly(c, status) ==
    IF status < 0 THEN RejectP(c, NativeError(status, c.path)) ELSE ResolveP(c, Undefined)
BindingResultDropsError(c, status) ==
    IF status # 0 THEN c ELSE ResolveP(c, Undefined)
BindingResult(c, status) ==
    IF status # 0 THEN RejectP(c, NativeError(status, c.path)) ELSE ResolveP(c, Undefined)

Cur == log[Len(log)]
SetLast(lg, c) == [lg EXCEPT ![Len(lg)] = c]

Goto(p, i, lg, res, f) ==
    /\ pc' = p
    /\ idx' = i
    /\ log' = lg
    /\ result' = res
    /\ fs' = f

\* callBinding(target, times, flags) up to the call of binding.utimes
callBinding(i, target, tm, fl, lg, f) ==
    LET b == pathBuffer(platform, target) IN
    IF b.threw
    THEN Goto("done", i, lg, Rejected(b.err), f)
    ELSE Goto("await_binding", i,
              Append(lg, Call("native", i, target.s,
                              [buf |-> b.val, flags |-> fl, btime |-> tm.btime,
                               mtime |-> tm.mtime, atime |-> tm.atime])),
              Pending, f)

\* process.platform === 'win32' || process.platform === 'darwin'
IsNativeWin32Only(plat) == plat = "win32"
IsNative(plat) == plat = "win32" \/ plat = "darwin"

\* flags & 4 ? times.atime : times.mtime
AtimeArgNoSubstitute(fl, tm) == tm.atime
AtimeArg(fl, tm) == IF HasBit(fl, 4) THEN tm.atime ELSE tm.mtime

\* the calls of fs.utimes for targets[i], targets[i + 1], ... when none is awaited
RECURSIVE UtimesFrom(_, _, _, _, _)
UtimesFrom(i, tg, tm, fl, lg) ==
    IF i > Len(tg) THEN lg
    ELSE UtimesFrom(i + 1, tg, tm, fl,
                    Append(lg, Call("utimes", i, tg[i].s,
                                    [atime |-> Seconds(AtimeArg(fl, tm)),
                                     mtime |-> Seconds(tm.mtime)])))

LoopWithoutAwait(i, tg, tm, fl, lg, f) ==
    IF i > Len(tg)
    THEN Goto("done", i, lg, Fulfilled, f)
    ELSE IF IsNative(platform)
    THEN callBinding(i, tg[i], tm, fl, lg, f)
    ELSE IF HasBit(fl, 2)
    THEN Goto("await_utimes_mtime", Len(tg), UtimesFrom(i, tg, tm, fl, lg), Pending, f)
    ELSE Goto("await_stat", i,
              Append(lg, Call("stat", i, tg[i].s, [none |-> TRUE])),
              Pending, f)

\* the body of the for-of loop for targets[i], up to its first await; past the
\* last target set returns
Loop(i, tg, tm, fl, lg, f) ==
    IF i > Len(tg)
    THEN Goto("done", i, lg, Fulfilled, f)
    ELSE IF IsNative(platform)
    THEN callBinding(i, tg[i], tm, fl, lg, f)
    ELSE IF HasBit(fl, 2)
    THEN LET atime == AtimeArg(fl, tm) IN
         Goto("await_utimes_mtime", i,
              Append(lg, Call("utimes", i, tg[i].s,
                              [atime |-> Seconds(atime), mtime |-> Seconds(tm.mtime)])),
              Pending, f)
    ELSE Goto("await_stat", i,
              Append(lg, Call("stat", i, tg[i].s, [none |-> TRUE])),
              Pending, f)

(***************************************************************************)
(* The actions: the call of set, and the completion of each external call  *)
(* with the continuation of set that it resumes.                           *)
(***************************************************************************)
\* the times a continuation of set reads: the object getFullOptions built at
\* the call, not the caller's options
CurrentTimesReread ==
    IF options.t = "object"
    THEN [btime |-> OrZero(options.btime), mtime |-> OrZero(options.mtime),
          atime |-> OrZero(options.atime)]
    ELSE times
CurrentTimes == times

set ==
    /\ pc = "start"
    /\ LET np == normalizePaths(paths) IN
       IF np.threw
       THEN /\ Goto("done", idx, log, Rejected(np.err), fs)
            /\ UNCHANGED <<targets, times, flags>>
       ELSE LET fo == getFullOptions(options) IN
            IF fo.threw
            THEN /\ Goto("done", idx, log, Rejected(fo.err), fs)
                 /\ targets' = np.val
                 /\ UNCHANGED <<times, flags>>
            ELSE /\ targets' = np.val
                 /\ times' = fo.val
                 /\ flags' = getFlags(fo.val)
                 /\ IF getFlags(fo.val) = 0 \/ Len(np.val) = 0
                    THEN Goto("done", idx, log, Fulfilled, fs)
                    ELSE Loop(1, np.val, fo.val, getFlags(fo.val), log, fs)
    /\ UNCHANGED <<platform, paths, options, hist>>

StatOk ==
    /\ pc = "await_stat"
    /\ Cur.path \in DOMAIN fs
    /\ \E m \in getTime(fs[Cur.path].mtime) :
         Goto("await_utimes_atime", idx,
              Append(SetLast(log, ResolveP(Reported(Cur, 0), m)),
                     Call("utimes", idx, Cur.path,
                          [atime |-> Seconds(CurrentTimes.atime), mtime |-> Seconds(m)])),
              Pending, fs)
    /\ UNCHANGED <<platform, paths, options, targets, times, flags, hist>>

StatFail ==
    /\ pc = "await_stat"
    /\ \E code \in OsErrors :
         LET e == OsErr("stat", code, Cur.path) IN
         Goto("done", idx, SetLast(log, RejectP(Reported(Cur, e.code), e)), Rejected(e), fs)
    /\ UNCHANGED <<platform, paths, options, targets, times, flags, hist>>

UtimesOk ==
    /\ pc \in {"await_utimes_mtime", "await_utimes_atime"}
    /\ Cur.path \in DOMAIN fs
    /\ Loop(idx + 1, targets, CurrentTimes, flags,
            SetLast(log, ResolveP(Reported(Cur, 0), Undefined)),
            UtimesEffect(fs, Cur.path, Cur.args.atime, Cur.args.mtime))
    /\ UNCHANGED <<platform, paths, options, targets, times, flags, hist>>

UtimesFailIgnored ==
    /\ pc \in {"await_utimes_mtime", "await_utimes_atime"}
    /\ \E code \in OsErrors :
         LET e == OsErr("utimes", code, Cur.path) IN
         Loop(idx + 1, targets, times, flags,
              SetLast(log, RejectP(Reported(Cur, e.code), e)), fs)
    /\ UNCHANGED <<platform, paths, options, targets, times, flags, hist>>

UtimesFail ==
    /\ pc \in {"await_utimes_mtime", "await_utimes_atime"}
    /\ \E code \in OsErrors :
         LET e == OsErr("utimes", code, Cur.path) IN
         Goto("done", idx, SetLast(log, RejectP(Reported(Cur, e.code), e)), Rejected(e), fs)
    /\ UNCHANGED <<platform, paths, options, targets, times, flags, hist>>

BindingCallback ==
    /\ pc = "await_binding"
    /\ ~Cur.reported
    /\ \E status \in NativeStatuses :
         /\ status = 0 => Cur.path \in DOMAIN fs
         /\ LET c == BindingResult(Reported(Cur, status), status)
                f == BindingEffect(fs, Cur.path, Cur.args.flags, Cur.args.btime,
                                   Cur.args.mtime, Cur.args.atime, status)
            IN  IF c.st = "failed"
                THEN Goto("done", idx, SetLast(log, c), Rejected(c.ret), f)
                ELSE IF c.st = "ok"
                THEN Loop(idx + 1, targets, CurrentTimes, flags, SetLast(log, c), f)
                ELSE Goto(pc, idx, SetLast(log, c), result, f)
    /\ UNCHANGED <<platform, paths, options, targets, times, flags, hist>>

Next ==
    \/ set
    \/ StatOk
    \/ StatFail
    \/ UtimesOk
    \/ UtimesFail
    \/ BindingCallback

Spec == Init /\ [][Next]_vars

(***************************************************************************)
(* The same call with another process at work: while set is suspended on   *)
(* an external call, the other process may set the mtime of a file.        *)
(***************************************************************************)
TouchTime == FileTime(8500, 0)

ExternalTouch ==
    /\ pc \notin {"start", "done"}
    /\ Len(hist.writes) < MaxTouches
    /\ \E f \in Files :
         /\ fs' = [fs EXCEPT ![f].mtime = TouchTime]
         /\ hist' = [hist EXCEPT !.writes = Append(@, [path |-> f, at |-> Len(log)])]
    /\ UNCHANGED <<platform, paths, options, pc, targets, times, flags, idx, log, result>>

NextRace ==
    \/ Next
    \/ ExternalTouch

SpecRace == Init /\ [][NextRace]_vars

(***************************************************************************)
(* The same call of set, with every kind of value in the time fields and   *)
(* one or two valid targets.                                               *)
(***************************************************************************)
TimeValsAll ==
    {Undefined, Null, Str(<<49>>), NaN, Infinity, Neg(Infinity),
     Half(Fin(0, 1)), Neg(Half(Fin(0, 0))), Neg(Fin(0, 1)),
     Fin(0, 0), Neg(Fin(0, 0)), Fin(0, 1), T1,
     Fin(281474, 976710655), Fin(281474, 976710656), Half(Fin(281474, 976710655))}

InitTime ==
    /\ platform \in Platforms
    /\ paths \in {PathA, Arr(<<PathA, PathB>>)}
    /\ options \in {Obj(b, m, a) : b \in TimeValsAll, m \in TimeValsAll, a \in TimeValsAll}
    /\ pc = "start"
    /\ targets = <<>>
    /\ times = [btime |-> Fin(0, 0), mtime |-> Fin(0, 0), atime |-> Fin(0, 0)]
    /\ flags = 0
    /\ idx = 0
    /\ log = <<>>
    /\ result = Pending
    /\ fs = InitFs
    /\ hist = NoHistory(paths, options)

SpecTime == InitTime /\ [][Next]_vars

(***************************************************************************)
(* The same call of set when every external call that is issued completes: *)
(* the call of set is made, and a pending stat, utimes or binding call     *)
(* gets its answer.                                                        *)
(***************************************************************************)
OptionArgsFew ==
    {Obj(b, m, a) : b \in {Undefined, T1}, m \in {Undefined, T1}, a \in {Undefined, T2}}
    \cup {Undefined}

InitLive ==
    /\ platform \in Platforms
    /\ paths \in PathArgs
    /\ options \in OptionArgsFew
    /\ pc = "start"
    /\ targets = <<>>
    /\ times = [btime |-> Fin(0, 0), mtime |-> Fin(0, 0), atime |-> Fin(0, 0)]
    /\ flags = 0
    /\ idx = 0
    /\ log = <<>>
    /\ result = Pending
    /\ fs = InitFs
    /\ hist = NoHistory(paths, options)

SpecLive == InitLive /\ [][Next]_vars /\ WF_vars(Next)

(***************************************************************************)
(* The same call with the caller at work: while set is suspended on an     *)
(* external call, the caller's code runs and may assign to a field of the  *)
(* options object it passed, or replace, push or pop an element of the     *)
(* paths array it passed.  set keeps the array itself as its target list   *)
(* and a copy of the times.                                                *)
(***************************************************************************)
Awaiting == pc \in {"await_stat", "await_utimes_mtime", "await_utimes_atime", "await_binding"}

PathElemsCaller == {PathA, PathB, Str(<<>>)}
PathArgsCaller ==
    {Arr(a) : a \in UNION {[1..n -> PathElemsCaller] : n \in 0..MaxPaths}} \cup {PathA}
OptionArgsCaller ==
    {Obj(b, m, a) : b \in {Undefined, T1}, m \in {Undefined, T1}, a \in {Undefined, T1, T2}}

InitCaller ==
    /\ platform \in Platforms
    /\ paths \in PathArgsCaller
    /\ options \in OptionArgsCaller
    /\ pc = "start"
    /\ targets = <<>>
    /\ times = [btime |-> Fin(0, 0), mtime |-> Fin(0, 0), atime |-> Fin(0, 0)]
    /\ flags = 0
    /\ idx = 0
    /\ log = <<>>
    /\ result = Pending
    /\ fs = InitFs
    /\ hist = NoHistory(paths, options)

\* options.k = v in the caller's code
MutateOptions ==
    /\ Awaiting
    /\ Len(hist.edits) < MaxEdits
    /\ options.t = "object"
    /\ \E k \in {"btime", "mtime", "atime"}, v \in {Undefined, T2} :
         /\ options[k] # v
         /\ options' = [options EXCEPT ![k] = v]
    /\ hist' = [hist EXCEPT !.edits = Append(@, Len(log))]
    /\ UNCHANGED <<platform, paths, pc, targets, times, flags, idx, log, result, fs>>

NextOptions ==
    \/ Next
    \/ MutateOptions

SpecOptions == InitCaller /\ [][NextOptions]_vars

\* paths[i] = v, paths.push(v) or paths.pop() in the caller's code: the array
\* is the one set iterates
MutatePaths ==
    /\ Awaiting
    /\ Len(hist.edits) < MaxEdits
    /\ paths.t = "array"
    /\ \E a \in {[paths.a EXCEPT ![i] = v] : i \in DOMAIN paths.a, v \in PathElemsCaller}
              \cup {Append(paths.a, v) : v \in PathElemsCaller}
              \cup {SubSeq(paths.a, 1, Len(paths.a) - 1)} :
         /\ a # paths.a
         /\ paths' = Arr(a)
         /\ targets' = a
    /\ hist' = [hist EXCEPT !.edits = Append(@, Len(log))]
    /\ UNCHANGED <<platform, options, pc, times, flags, idx, log, result, fs>>

NextPaths ==
    \/ Next
    \/ MutatePaths

SpecPaths == InitCaller /\ [][NextPaths]_vars

(***************************************************************************)
(* What the caller asked for, read from the arguments themselves.          *)
(***************************************************************************)
OnFallback == platform \notin {"win32", "darwin"}
OnNative == platform \in {"win32", "darwin"}
Req(k) == Prop(options, k)
\* the field is requested: the bit of the mask that stands for it is set
Asked(k) == options.t = "object" /\ Req(k).t = "number" /\ (Req(k).hi # 0 \/ Req(k).lo # 0)
\* the timestamp a file has once a requested number of milliseconds is stored
Stamp(n) == [hi |-> n.hi, lo |-> n.lo, sub |-> 0]
\* the seconds fs.utimes is to be given for a number of milliseconds
InSeconds(n) == [hi |-> n.hi, sec |-> n.lo \div 1000, milli |-> n.lo - 1000 * (n.lo \div 1000)]
Succeeded == pc = "done" /\ result.state = "fulfilled"
PathOf(i) == targets[i].s

(***************************************************************************)
(* C1: on a fallback platform, a successful atime-only request (MTIME bit  *)
(* unset, ATIME bit set) leaves every target's mtime as it was before the  *)
(* call and sets its atime to the requested atime, with one stat and then  *)
(* one utimes(target, requested atime, mtime the stat returned) per target.*)
(***************************************************************************)
C1_AtimeOnlyKeepsMtime ==
    (OnFallback /\ Succeeded /\ ~Asked("mtime") /\ Asked("atime")) =>
        /\ Len(log) = 2 * Len(targets)
        /\ \A i \in DOMAIN targets :
            /\ fs[PathOf(i)].mtime = InitFs[PathOf(i)].mtime
            /\ fs[PathOf(i)].atime = Stamp(Req("atime"))
            /\ log[2 * i - 1].op = "stat" /\ log[2 * i - 1].path = PathOf(i)
            /\ log[2 * i].op = "utimes" /\ log[2 * i].path = PathOf(i)
            /\ log[2 * i].args.atime = InSeconds(Req("atime"))
            /\ log[2 * i].args.mtime = InSeconds(log[2 * i - 1].ret)

(***************************************************************************)
(* C2: on a fallback platform with the MTIME bit set, set issues one       *)
(* utimes per target and no stat; the mtime argument is the requested      *)
(* mtime and the atime argument is the requested atime when the ATIME bit  *)
(* is set and the requested mtime otherwise; after a successful call both  *)
(* timestamps of every target hold those values.                           *)
(***************************************************************************)
C2_AtimeWanted == IF Asked("atime") THEN Req("atime") ELSE Req("mtime")

C2_MtimeSetOneUtimes ==
    (OnFallback /\ pc # "start" /\ Asked("mtime") /\ targets # <<>>) =>
        /\ \A j \in DOMAIN log :
            /\ log[j].op = "utimes"
            /\ log[j].target = j
            /\ log[j].path = PathOf(j)
            /\ log[j].args.mtime = InSeconds(Req("mtime"))
            /\ log[j].args.atime = InSeconds(C2_AtimeWanted)
        /\ Succeeded =>
            /\ Len(log) = Len(targets)
            /\ \A i \in DOMAIN targets :
                /\ fs[PathOf(i)].mtime = Stamp(Req("mtime"))
                /\ fs[PathOf(i)].atime = Stamp(C2_AtimeWanted)

\* an mtime-only request on two targets has completed
C2_Witness ==
    /\ OnFallback /\ Succeeded
    /\ Asked("mtime") /\ ~Asked("atime")
    /\ Len(targets) = 2 /\ Len(log) = 2
    /\ fs[PathOf(2)].atime = Stamp(Req("mtime"))

(***************************************************************************)
(* C3: on a fallback platform, a btime-only request (BTIME bit set, MTIME  *)
(* and ATIME bits unset) issues no stat and no utimes for any target and   *)
(* leaves every mtime and atime unchanged.                                 *)
(***************************************************************************)
C3_BtimeOnlyNoOp ==
    (OnFallback /\ pc # "start" /\ Asked("btime") /\ ~Asked("mtime") /\ ~Asked("atime")) =>
        /\ log = <<>>
        /\ fs = InitFs

(***************************************************************************)
(* Valid input, stated from the interface: a path is a non-empty string    *)
(* without a null character, a time is absent or an integer in 0..2^48-1.  *)
(***************************************************************************)
ValidPathValue(v) == v.t = "string" /\ v.s # <<>> /\ \A i \in DOMAIN v.s : v.s[i] # 0
ValidPaths(p) ==
    \/ p.t = "string" /\ ValidPathValue(p)
    \/ p.t = "array" /\ \A i \in DOMAIN p.a : ValidPathValue(p.a[i])
InRange48(v) ==
    \/ v.t = "undefined"
    \/ /\ v.t = "number" /\ v.cls = "fin" /\ ~v.half
       /\ v.neg => (v.hi = 0 /\ v.lo = 0)
       /\ v.hi < 281474 \/ (v.hi = 281474 /\ v.lo <= 976710655)
TimeFields == {"btime", "mtime", "atime"}
ValidOptions(o) == o.t = "object" /\ \A k \in TimeFields : InRange48(o[k])
ValidInput == ValidPaths(paths) /\ ValidOptions(options)
NothingAsked == \A k \in TimeFields : ~Asked(k)
ValidationKinds == {"InvalidArgument", "InvalidPath", "InvalidTime", "TypeError"}

(***************************************************************************)
(* C4: for valid targets and a non-empty request, when an external call    *)
(* (stat, utimes or the native call) fails for target k, set rejects with  *)
(* that call's error, the targets before k have the requested change       *)
(* applied and keep it, no call is issued for any target after k, and no   *)
(* mutating call succeeds for target k.                                    *)
(***************************************************************************)
C4_Applied(i) ==
    IF OnNative
    THEN \A k \in TimeFields : Asked(k) => fs[PathOf(i)][k] = Stamp(Req(k))
    ELSE /\ Asked("mtime") => /\ fs[PathOf(i)].mtime = Stamp(Req("mtime"))
                              /\ fs[PathOf(i)].atime = Stamp(C2_AtimeWanted)
         /\ (~Asked("mtime") /\ Asked("atime")) => fs[PathOf(i)].atime = Stamp(Req("atime"))

C4_FirstFailureAborts ==
    \A j \in DOMAIN log :
        (log[j].reported /\ log[j].status # 0) =>
            /\ pc = "done"
            /\ result.state = "rejected"
            /\ result.err.code = log[j].status
            /\ result.err.path = log[j].path
            /\ result.err.kind = (IF log[j].op = "native" THEN "NativeCallFailed" ELSE "OSError")
            /\ log[j].op # "native" => result.err.key.name = log[j].op
            /\ j = Len(log)
            /\ \A i \in 1..(log[j].target - 1) : C4_Applied(i)
            /\ \A c \in DOMAIN log :
                /\ log[c].target <= log[j].target
                /\ (log[c].target = log[j].target /\ log[c].op # "stat") => c = j

\* the call for the second of three targets failed after the first was updated
C4_Witness ==
    /\ pc = "done" /\ result.state = "rejected"
    /\ Len(targets) = 3 /\ Len(log) = 2
    /\ log[1].st = "ok" /\ log[2].st = "failed" /\ log[2].target = 2
    /\ PathOf(1) # PathOf(2)
    /\ fs[PathOf(1)] # InitFs[PathOf(1)]
    /\ fs[PathOf(2)] = InitFs[PathOf(2)]

(***************************************************************************)
(* C5: when the paths argument, a path element, the options argument or a  *)
(* time field is invalid, set rejects without having issued any stat,      *)
(* utimes or native call, on every platform and wherever the invalid       *)
(* element is; no validation failure comes after a call was issued.        *)
(***************************************************************************)
C5_ValidationFirst ==
    /\ (pc # "start" /\ ~ValidInput) =>
            /\ pc = "done" /\ result.state = "rejected"
            /\ log = <<>> /\ fs = InitFs
    /\ (result.state = "rejected" /\ result.err.kind \in ValidationKinds) =>
            /\ log = <<>> /\ fs = InitFs

\* the last of three paths holds a null character, on a platform with the binding
C5_Witness ==
    /\ OnNative /\ pc = "done" /\ result.state = "rejected"
    /\ paths.t = "array" /\ Len(paths.a) = 3
    /\ ValidPathValue(paths.a[1]) /\ ValidPathValue(paths.a[2])
    /\ paths.a[3] = Str(<<97, 0>>)
    /\ ValidOptions(options) /\ Asked("mtime")
    /\ log = <<>>

(***************************************************************************)
(* C6: for valid input with a zero mask (no time field requested) or an    *)
(* empty target list, set completes successfully and issues no stat,       *)
(* utimes or native call on any platform.                                  *)
(***************************************************************************)
C6_NothingToDo ==
    (pc # "start" /\ ValidInput /\ (NothingAsked \/ paths = Arr(<<>>))) =>
        /\ Succeeded
        /\ log = <<>> /\ fs = InitFs

\* two valid targets and a time given as 0: nothing is requested
C6_Witness ==
    /\ Succeeded /\ NothingAsked
    /\ paths.t = "array" /\ Len(paths.a) = 2
    /\ options.t = "object" /\ options.mtime = Fin(0, 0)
    /\ log = <<>>

(***************************************************************************)
(* C7: on win32 and darwin, for every non-zero mask, every call set issues *)
(* is a native call, one per target in order, carrying the target's path   *)
(* buffer, the mask and the three times; set issues no stat and no utimes. *)
(***************************************************************************)
C7_Bytes(s) == IF s = <<97>> THEN <<97>> ELSE <<195, 169>>
C7_Buffer(s) ==
    (IF platform = "win32" THEN <<92, 92, 63, 92, 67, 58, 92>> ELSE <<>>)
        \o C7_Bytes(s) \o <<0>>
C7_Mask ==
    (IF Asked("btime") THEN 1 ELSE 0) + (IF Asked("mtime") THEN 2 ELSE 0)
        + (IF Asked("atime") THEN 4 ELSE 0)
C7_Time(k) == IF Asked(k) THEN Req(k) ELSE Fin(0, 0)

C7_NativeOnly ==
    (OnNative /\ pc # "start") =>
        /\ \A j \in DOMAIN log :
            /\ log[j].op = "native"
            /\ log[j].target = j
            /\ log[j].path = PathOf(j)
            /\ log[j].args = [buf |-> C7_Buffer(PathOf(j)), flags |-> C7_Mask,
                              btime |-> C7_Time("btime"), mtime |-> C7_Time("mtime"),
                              atime |-> C7_Time("atime")]
        /\ (ValidInput /\ ~NothingAsked /\ pc = "done" /\ result.state = "fulfilled")
                => Len(log) = Len(targets)
        /\ (ValidInput /\ ~NothingAsked /\ paths # Arr(<<>>)) => log # <<>>

\* a btime-only request on darwin has gone through the binding for two targets
C7_Witness ==
    /\ platform = "darwin" /\ Succeeded
    /\ Asked("btime") /\ ~Asked("mtime") /\ ~Asked("atime")
    /\ Len(log) = 2 /\ log[2].op = "native" /\ log[2].args.flags = 1

(***************************************************************************)
(* C8: a native call succeeds exactly when the binding reports status 0;   *)
(* for every other status it fails with an error that carries the status   *)
(* and the target's path; each native call settles exactly once.           *)
(***************************************************************************)
C8_NativeStatus ==
    \A j \in DOMAIN log :
        log[j].op = "native" =>
            /\ ~log[j].reported => (log[j].st = "pending" /\ log[j].settles = 0)
            /\ log[j].reported =>
                /\ log[j].settles = 1
                /\ log[j].st = "ok" <=> log[j].status = 0
                /\ log[j].status # 0 =>
                    /\ log[j].st = "failed"
                    /\ log[j].ret.kind = "NativeCallFailed"
                    /\ log[j].ret.code = log[j].status
                    /\ log[j].ret.path = PathOf(log[j].target)
                    /\ result = Rejected(log[j].ret)

\* one native call resolved on status 0 and the next was rejected on status 5
C8_Witness ==
    /\ Len(log) = 2
    /\ log[1].op = "native" /\ log[1].st = "ok" /\ log[1].status = 0
    /\ log[2].op = "native" /\ log[2].st = "failed" /\ log[2].status = 5

(***************************************************************************)
(* C9: targets are processed one after the other in the order of the paths *)
(* given: at most one external call is outstanding, a call is issued only  *)
(* when every earlier call has completed successfully, and the calls       *)
(* follow the order of the paths.                                          *)
(***************************************************************************)
C9_PathGiven(i) == IF paths.t = "array" THEN paths.a[i].s ELSE paths.s

C9_Sequential ==
    /\ Cardinality({j \in DOMAIN log : log[j].st = "pending"}) <= 1
    /\ \A j \in DOMAIN log :
        /\ j < Len(log) => log[j].st = "ok"
        /\ j = 1 => log[j].target = 1
        /\ j > 1 => log[j].target \in {log[j - 1].target, log[j - 1].target + 1}
        /\ (j > 1 /\ log[j].target = log[j - 1].target) =>
                (log[j - 1].op = "stat" /\ log[j].op = "utimes")
        /\ log[j].path = C9_PathGiven(log[j].target)

\* the call for the third target is outstanding, the first two have succeeded
C9_Witness ==
    /\ paths.t = "array" /\ Len(paths.a) = 3
    /\ Len(log) = 3 /\ log[3].st = "pending" /\ log[3].target = 3
    /\ log[1].st = "ok" /\ log[2].st = "ok"
    /\ log[1].path # log[2].path

(***************************************************************************)
(* C10: a time field is accepted exactly when it is absent or an integer v *)
(* with 0 <= v <= 2^48 - 1; a present value that is not a number, is       *)
(* fractional, negative or greater than 2^48 - 1 makes set fail with       *)
(* InvalidTime (0 and 2^48 - 1 are accepted, -1 and 2^48 are rejected).    *)
(***************************************************************************)
C10_TimeValidation ==
    (pc # "start" /\ ValidPaths(paths) /\ options.t = "object") =>
        /\ (result.state = "rejected" /\ result.err.kind = "InvalidTime")
                <=> (\E k \in TimeFields : ~InRange48(options[k]))
        /\ (\A k \in TimeFields : InRange48(options[k])) =>
                (result.err.kind \notin ValidationKinds /\ (NothingAsked \/ log # <<>>))

\* 2^48 - 1 was accepted as mtime and the call for it has been issued
C10_Witness ==
    /\ options.t = "object"
    /\ options.btime = Undefined
    /\ options.mtime = Fin(281474, 976710655)
    /\ options.atime = Fin(0, 0)
    /\ log # <<>> /\ log[1].st = "ok"

(***************************************************************************)
(* C11: a path is accepted exactly when it is a non-empty string without a *)
(* null character.  A single string that fails this fails with             *)
(* InvalidPath; in an array every element is checked and the error names   *)
(* paths[i] for the lowest offending i; a valid array is processed in its  *)
(* order and a valid string as a list of one.                              *)
(***************************************************************************)
C11_FirstBad ==
    CHOOSE i \in DOMAIN paths.a :
        /\ ~ValidPathValue(paths.a[i])
        /\ \A j \in 1..(i - 1) : ValidPathValue(paths.a[j])

C11_PathValidation ==
    pc # "start" =>
        /\ (paths.t = "string" /\ ~ValidPathValue(paths)) =>
                /\ result.state = "rejected" /\ log = <<>>
                /\ result.err.kind = "InvalidPath"
                /\ result.err.key = [name |-> "path", index |-> 0 - 1]
        /\ (paths.t = "string" /\ ValidPathValue(paths)) =>
                /\ targets = <<paths>>
                /\ result.err.key.name \notin {"path", "paths"}
                /\ \A j \in DOMAIN log : log[j].path = paths.s
        /\ (paths.t = "array" /\ \E i \in DOMAIN paths.a : ~ValidPathValue(paths.a[i])) =>
                /\ result.state = "rejected" /\ log = <<>>
                /\ result.err.key = [name |-> "paths", index |-> C11_FirstBad - 1]
                /\ paths.a[C11_FirstBad].t = "string" => result.err.kind = "InvalidPath"
        /\ (paths.t = "array" /\ \A i \in DOMAIN paths.a : ValidPathValue(paths.a[i])) =>
                /\ targets = paths.a
                /\ result.err.key.name \notin {"path", "paths"}
                /\ \A j \in DOMAIN log : log[j].path = paths.a[log[j].target].s
                /\ \A j \in DOMAIN log : j > 1 => log[j].target >= log[j - 1].target

\* of two offending elements, the empty string at paths[1] is the one reported
C11_Witness ==
    /\ pc = "done"
    /\ paths = Arr(<<PathA, Str(<<>>), Str(<<97, 0>>)>>)
    /\ result.state = "rejected"
    /\ result.err.key = [name |-> "paths", index |-> 1]
    /\ result.err.reason = "must not be empty"

(***************************************************************************)
(* C12: a paths argument that is neither a string nor an array, and an     *)
(* options argument that is not an object (undefined, null, a number, a    *)
(* string), make set fail with InvalidArgument and with nothing else.      *)
(***************************************************************************)
C12_InvalidArgument ==
    (/\ pc # "start"
     /\ \/ paths.t \notin {"string", "array"}
        \/ ValidPaths(paths) /\ options.t # "object") =>
        /\ result.state = "rejected"
        /\ result.err.kind = "InvalidArgument"

(***************************************************************************)
(* C13: for validated options, each field of the times equals the value    *)
(* supplied, or 0 when the field is absent; each bit of the mask (BTIME 1, *)
(* MTIME 2, ATIME 4) is set exactly when its field is not 0; so a field    *)
(* supplied as 0 gives the same times, mask and calls as an absent one.    *)
(***************************************************************************)
C13_Full(k) ==
    IF Req(k).t = "undefined" THEN Fin(0, 0) ELSE [Req(k) EXCEPT !.neg = FALSE]
C13_NonZero(n) == n.hi # 0 \/ n.lo # 0
C13_Bit(f, b) == (f \div b) - 2 * ((f \div b) \div 2) = 1

C13_Plan ==
    (pc # "start" /\ ValidInput) =>
        /\ \A k \in TimeFields : times[k] = C13_Full(k)
        /\ flags \in 0..7
        /\ C13_Bit(flags, 1) <=> C13_NonZero(times.btime)
        /\ C13_Bit(flags, 2) <=> C13_NonZero(times.mtime)
        /\ C13_Bit(flags, 4) <=> C13_NonZero(times.atime)
        /\ \A j \in DOMAIN log :
            /\ log[j].op = "native" =>
                    /\ log[j].args.flags = flags
                    /\ \A k \in TimeFields : log[j].args[k] = times[k]
            /\ log[j].op = "stat" => ~C13_Bit(flags, 2)
            /\ (log[j].op = "utimes" /\ C13_Bit(flags, 2)) =>
                    /\ log[j].args.mtime = InSeconds(times.mtime)
                    /\ log[j].args.atime =
                         InSeconds(IF C13_Bit(flags, 4) THEN times.atime ELSE times.mtime)
            /\ (log[j].op = "utimes" /\ ~C13_Bit(flags, 2)) =>
                    log[j].args.atime = InSeconds(times.atime)

\* btime is supplied as 0 and atime is absent: only the MTIME bit is set
C13_Witness ==
    /\ options = Obj(Fin(0, 0), T1, Undefined)
    /\ ValidPaths(paths)
    /\ flags = 2
    /\ times = [btime |-> Fin(0, 0), mtime |-> T1, atime |-> Fin(0, 0)]
    /\ log # <<>> /\ log[1].st = "ok"

(***************************************************************************)
(* C14: in the atime-only fallback the stat and the utimes that follows    *)
(* are not atomic: when another process sets the file's mtime after the    *)
(* stat has returned and before the utimes is applied, set writes back the *)
(* mtime it read and the other process's mtime is lost; with no write by   *)
(* another process the mtime is preserved.                                 *)
(***************************************************************************)
\* target i is the last one for its path, and the last write to that path by
\* another process came while the utimes for target i was outstanding
C14_Raced(i) ==
    /\ \A i2 \in DOMAIN targets : i2 > i => PathOf(i2) # PathOf(i)
    /\ \E w \in DOMAIN hist.writes :
         hist.writes[w].path = PathOf(i) /\ hist.writes[w].at = 2 * i
    /\ \A w \in DOMAIN hist.writes :
         hist.writes[w].path = PathOf(i) => hist.writes[w].at <= 2 * i

C14_StaleMtime ==
    (OnFallback /\ Succeeded /\ ~Asked("mtime") /\ Asked("atime")) =>
        \A i \in DOMAIN targets :
            /\ C14_Raced(i) =>
                    /\ fs[PathOf(i)].mtime = Stamp(log[2 * i - 1].ret)
                    /\ fs[PathOf(i)].mtime # TouchTime
            /\ hist.writes = <<>> => fs[PathOf(i)].mtime = InitFs[PathOf(i)].mtime

(***************************************************************************)
(* C15: every InvalidTime failure names the field that was invalid         *)
(* (btime, mtime or atime), whatever the reason (not a number, not an      *)
(* integer, negative, greater than 2^48 - 1); of several invalid fields    *)
(* the first in the order btime, mtime, atime is the one named.            *)
(***************************************************************************)
C15_FirstInvalid ==
    IF ~InRange48(options.btime) THEN "btime"
    ELSE IF ~InRange48(options.mtime) THEN "mtime"
    ELSE "atime"

C15_FieldNamed ==
    (/\ pc # "start" /\ ValidPaths(paths) /\ options.t = "object"
     /\ \E k \in TimeFields : ~InRange48(options[k])) =>
        /\ result.state = "rejected"
        /\ result.err.kind = "InvalidTime"
        /\ result.err.key.name = C15_FirstInvalid

(***************************************************************************)
(* C16: when every external call that is issued completes, set eventually  *)
(* settles, and it settles once: with success when the calls of all        *)
(* targets succeeded, or with the error of the first call that failed.     *)
(* While an external call has not completed set is not settled, and no     *)
(* further call is issued until the pending one has succeeded; once set    *)
(* has settled no call is issued any more.                                 *)
(***************************************************************************)
C16_CallPending == log # <<>> /\ Cur.st = "pending"

C16_Outcome ==
    /\ C16_CallPending => result.state = "pending"
    /\ \A j \in DOMAIN log :
        /\ log[j].settles <= 1
        /\ j < Len(log) => log[j].st = "ok"
    /\ result.state = "fulfilled" =>
        /\ \A j \in DOMAIN log : log[j].st = "ok"
        /\ log # <<>> => Cur.target = Len(targets)
    /\ (result.state = "rejected" /\ log # <<>>) =>
        /\ Cur.st = "failed" => result.err = Cur.ret
        /\ Cur.st = "ok" => result.err.kind = "InvalidPath"

C16_Step ==
    /\ (log' # log /\ log # <<>>) =>
        /\ Len(log') >= Len(log)
        /\ \A j \in 1..(Len(log) - 1) : log'[j] = log[j]
        /\ Len(log') > Len(log) => (log'[Len(log)].st = "ok" /\ Len(log') = Len(log) + 1)
    /\ result.state # "pending" => (result' = result /\ log' = log /\ fs' = fs)

C16_Settles ==
    /\ <>(result.state # "pending")
    /\ []C16_Outcome
    /\ [][C16_Step]_vars

\* a second target's call has failed after the first target's succeeded
C16_Witness ==
    /\ result.state = "rejected"
    /\ Len(targets) >= 2
    /\ Len(log) >= 2
    /\ Cur.target = 2 /\ Cur.st = "failed"
    /\ log[1].st = "ok"

(***************************************************************************)
(* C17: the times and the mask of a call of set are those of the options   *)
(* as they were when set was called: every stat, utimes and binding call   *)
(* of every target carries them, whatever the caller assigns to the        *)
(* options object while set is suspended on an external call.              *)
(***************************************************************************)
C17_Entry(k) ==
    IF Prop(hist.options0, k).t = "undefined" THEN Fin(0, 0) ELSE Prop(hist.options0, k)
C17_Has(k) == C17_Entry(k).hi # 0 \/ C17_Entry(k).lo # 0
C17_Mask ==
    (IF C17_Has("btime") THEN 1 ELSE 0) + (IF C17_Has("mtime") THEN 2 ELSE 0)
        + (IF C17_Has("atime") THEN 4 ELSE 0)

C17_TimesOfEntry ==
    (pc # "start" /\ ValidPaths(hist.paths0)) =>
        /\ times = [k \in {"btime", "mtime", "atime"} |-> C17_Entry(k)]
        /\ flags = C17_Mask
        /\ C17_Mask = 0 => log = <<>>
        /\ \A j \in DOMAIN log :
            /\ log[j].op = "native" =>
                /\ log[j].args.flags = C17_Mask
                /\ \A k \in {"btime", "mtime", "atime"} : log[j].args[k] = C17_Entry(k)
            /\ log[j].op = "stat" => ~C17_Has("mtime")
            /\ (log[j].op = "utimes" /\ C17_Has("mtime")) =>
                /\ log[j].args.mtime = InSeconds(C17_Entry("mtime"))
                /\ log[j].args.atime =
                      InSeconds(C17_Entry(IF C17_Has("atime") THEN "atime" ELSE "mtime"))
            /\ (log[j].op = "utimes" /\ ~C17_Has("mtime")) =>
                /\ j > 1 /\ log[j - 1].op = "stat"
                /\ log[j].args.atime = InSeconds(C17_Entry("atime"))
                /\ log[j].args.mtime = InSeconds(log[j - 1].ret)

\* the caller changed a requested time during the first target's call, and
\* set went on to complete a second target
C17_Witness ==
    /\ Succeeded
    /\ Len(log) >= 2 /\ Cur.target = 2
    /\ hist.edits # <<>> /\ hist.edits[1] = 1
    /\ \E k \in {"mtime", "atime"} :
         /\ C17_Has(k)
         /\ options[k] # hist.options0[k]
         /\ options[k] # Undefined

(***************************************************************************)
(* C18: every path on which set issues a stat, utimes or binding call is   *)
(* an element of the paths argument as it was when set was called, one     *)
(* that passed path validation then, and the targets processed are exactly *)
(* the elements the array had then, in order, whatever the caller replaces,*)
(* pushes or pops while set is suspended between targets.                  *)
(***************************************************************************)
C18_EntryTargets == IF hist.paths0.t = "array" THEN hist.paths0.a ELSE <<hist.paths0>>

C18_PathsOfEntry ==
    (pc # "start" /\ ValidPaths(hist.paths0)) =>
        /\ \A j \in DOMAIN log :
            /\ log[j].target \in DOMAIN C18_EntryTargets
            /\ ValidPathValue(C18_EntryTargets[log[j].target])
            /\ log[j].path = C18_EntryTargets[log[j].target].s
        /\ (Succeeded /\ flags # 0) =>
            \A i \in DOMAIN C18_EntryTargets : \E j \in DOMAIN log : log[j].target = i

====
